---- MODULE Spec2Model ----
(***************************************************************************)
(* changesets-digger: version-state reconstruction from changeset records  *)
(* and version tags.  The repository (working tree, HEAD, tags,            *)
(* package.json) is the state; the CLI commands add / tag / generate /     *)
(* version are the actions, translated from src/cli and src/core.          *)
(*                                                                         *)
(* The environment around the commands: record files are added (by the    *)
(* add command, or by hand without a header block), never edited or       *)
(* removed; commits take the whole working tree; tags are put on HEAD, by  *)
(* the tag command or by hand, and are all named v<version>.  When two     *)
(* tags are on one commit, `git describe` may report either.               *)
(***************************************************************************)
EXTENDS Integers, Sequences, FiniteSets, TLC

\* ------------------------------------------------------------------ bounds
NumIds == 2          \* record file names that may ever exist
MaxTags == 2         \* tags that may ever be created
MaxPureIds == 2      \* record ids in the snapshots handed to the differ
MaxPureLen == 3      \* longest record list handed to getHighestBumpLevel
MaxVerPart == 1      \* largest major / minor / patch number of a base version

Ids == 1..NumIds
Severities == {"major", "minor", "patch"}
\* --max-versions values tried: up to the number of tags there can be
MaxVersionsOpt == MaxTags + 1

\* ---------------------------------------------------------------- versions
\* A version string.  ok = FALSE is a string semver cannot parse.
Version(a, b, c, p) == [ok |-> TRUE, maj |-> a, min |-> b, pat |-> c, pre |-> p]
InvalidVersion == [ok |-> FALSE, maj |-> 0, min |-> 0, pat |-> 0, pre |-> FALSE]
ZeroVersion == Version(0, 0, 0, FALSE)

\* semver.prerelease(v): non-null exactly for a valid version with a suffix
semverPrerelease(v) == v.ok /\ v.pre

\* `${semver.major(v)}.${semver.minor(v)}.${semver.patch(v)}`
stripPrerelease(v) == Version(v.maj, v.min, v.pat, FALSE)

\* semver.inc(v, level); the empty set stands for null
semverInc(v, level) ==
    IF ~v.ok THEN {}
    ELSE IF level = "major" THEN
        {Version(IF v.min # 0 \/ v.pat # 0 \/ ~v.pre THEN v.maj + 1 ELSE v.maj,
                 0, 0, FALSE)}
    ELSE IF level = "minor" THEN
        {Version(v.maj, IF v.pat # 0 \/ ~v.pre THEN v.min + 1 ELSE v.min,
                 0, FALSE)}
    ELSE IF level = "patch" THEN
        {Version(v.maj, v.min, IF ~v.pre THEN v.pat + 1 ELSE v.pat, FALSE)}
    ELSE {}

\* semver precedence a > b on valid versions
VersionGT(a, b) ==
    \/ a.maj > b.maj
    \/ a.maj = b.maj /\ a.min > b.min
    \/ a.maj = b.maj /\ a.min = b.min /\ a.pat > b.pat
    \/ a.maj = b.maj /\ a.min = b.min /\ a.pat = b.pat /\ ~a.pre /\ b.pre

\* ------------------------------------------------------------- record text
\* A record file is a sequence of lines; lines are taken from this alphabet.
SepLine == "---"
BlankLine == ""
TypeLines == {"type: major", "type: minor", "type: patch"}

\* ---- strings, character by character
CharAt(str, i) == SubSeq(str, i, i)
UpperCase == "ABCDEFGHIJKLMNOPQRSTUVWXYZ"
LowerCase == "abcdefghijklmnopqrstuvwxyz"
\* the white space that \s and trim() know, as far as the texts here have it
IsSpace(c) == c = " " \/ c = "\t"

\* the lower-case letter of each upper-case one
LowerOf ==
    [c \in {CharAt(UpperCase, i) : i \in 1..Len(UpperCase)} |->
        CharAt(LowerCase, CHOOSE i \in 1..Len(UpperCase) : CharAt(UpperCase, i) = c)]

\* str.toLowerCase()
RECURSIVE toLowerCase(_)
toLowerCase(str) ==
    IF Len(str) = 0 THEN ""
    ELSE LET c == CharAt(str, 1)
         IN  (IF c \in DOMAIN LowerOf THEN LowerOf[c] ELSE c)
                 \o toLowerCase(SubSeq(str, 2, Len(str)))

\* str.startsWith(word, from - 1): word stands in str at position from
startsAt(str, word, from) ==
    /\ from + Len(word) - 1 <= Len(str)
    /\ SubSeq(str, from, from + Len(word) - 1) = word

\* str.trim()
RECURSIVE trim(_)
trim(str) ==
    IF Len(str) = 0 THEN str
    ELSE IF IsSpace(CharAt(str, 1)) THEN trim(SubSeq(str, 2, Len(str)))
    ELSE IF IsSpace(CharAt(str, Len(str))) THEN trim(SubSeq(str, 1, Len(str) - 1))
    ELSE str

\* the position after the run of \s* that starts at from
RECURSIVE skipSpace(_, _)
skipSpace(str, from) ==
    IF from <= Len(str) /\ IsSpace(CharAt(str, from))
    THEN skipSpace(str, from + 1) ELSE from

\* line.trim() === '---'
IsSeparator(line) == trim(line) = SepLine

\* line.match(/^type\s*:\s*["']?(major|minor|patch)["']?/): the captured
\* group, or "" when the line does not match.  The pattern has no $: what
\* follows the value is not looked at.
typeMatch(line) ==
    LET colon == skipSpace(line, 5)
        quote == skipSpace(line, colon + 1)
        value == IF startsAt(line, "\"", quote) \/ startsAt(line, "'", quote)
                 THEN quote + 1 ELSE quote
        found == {v \in Severities : startsAt(line, v, value)}
    IN  IF startsAt(line, "type", 1) /\ startsAt(line, ":", colon) /\ found # {}
        THEN CHOOSE v \in found : TRUE
        ELSE ""

TextPatch == <<SepLine, "type: patch", SepLine, BlankLine, "Fix critical bug">>
TextMinor == <<SepLine, "type: minor", SepLine, BlankLine, "Add new feature">>
TextMajor == <<SepLine, "type: major", SepLine, BlankLine, "Breaking change">>
TextBad == <<"This is not a valid changeset">>

\* texts the add command can write (type validated, message trimmed)
AddTexts == {TextPatch, TextMinor}
\* texts a file written by hand may also hold
ManualTexts == AddTexts \cup {TextBad}

\* ------------------------------------------------- changeset-reader: parse
\* lines.findIndex((line, idx) => idx > from && line.trim() === '---'),
\* 1-based; 0 when there is no such line
RECURSIVE findSeparator(_, _)
findSeparator(lines, from) ==
    IF from >= Len(lines) THEN 0
    ELSE IF IsSeparator(lines[from + 1]) THEN from + 1
    ELSE findSeparator(lines, from + 1)

\* a line of white space only
IsBlank(line) == trim(line) = ""

\* str.trimStart() and str.trimEnd() of one line
trimStart(str) == SubSeq(str, skipSpace(str, 1), Len(str))
RECURSIVE trimEnd(_)
trimEnd(str) ==
    IF Len(str) > 0 /\ IsSpace(CharAt(str, Len(str)))
    THEN trimEnd(SubSeq(str, 1, Len(str) - 1)) ELSE str

\* a trim that takes the white space off every line of the text
RECURSIVE trimLines_everyLine(_)
trimLines_everyLine(lines) ==
    IF lines = <<>> THEN <<>>
    ELSE IF IsBlank(Head(lines)) THEN trimLines_everyLine(Tail(lines))
    ELSE IF IsBlank(lines[Len(lines)])
         THEN trimLines_everyLine(SubSeq(lines, 1, Len(lines) - 1))
    ELSE [k \in 1..Len(lines) |-> trim(lines[k])]

\* lines.join('\n').trim(): the white space at both ends of the text goes,
\* line breaks included
RECURSIVE trimLines(_)
trimLines(lines) ==
    IF lines = <<>> THEN <<>>
    ELSE IF IsBlank(Head(lines)) THEN trimLines(Tail(lines))
    ELSE IF IsBlank(lines[Len(lines)])
         THEN trimLines(SubSeq(lines, 1, Len(lines) - 1))
    ELSE IF Len(lines) = 1 THEN <<trim(lines[1])>>
    ELSE <<trimStart(lines[1])>> \o SubSeq(lines, 2, Len(lines) - 1)
             \o <<trimEnd(lines[Len(lines)])>>

\* `Changes from ${id}`
fallbackSummary(id) == <<"Changes from " \o ToString(id)>>

\* the frontmatterLines.forEach loop: one release per matching line
RECURSIVE parseReleases(_)
parseReleases(frontmatterLines) ==
    IF frontmatterLines = <<>> THEN <<>>
    ELSE (IF typeMatch(Head(frontmatterLines)) # ""
          THEN <<typeMatch(Head(frontmatterLines))>> ELSE <<>>)
         \o parseReleases(Tail(frontmatterLines))

\* parseChangesetContent taking one separator line for a whole header block
parseChangesetContent_oneSeparator(content, id) ==
    LET frontmatterStart == findSeparator(content, 0)
        body == trimLines(SubSeq(content, frontmatterStart + 1, Len(content)))
    IN  IF frontmatterStart = 0
        THEN [id |-> id,
              summary |-> IF trimLines(content) # <<>> THEN trimLines(content)
                          ELSE fallbackSummary(id),
              releases |-> <<>>]
        ELSE [id |-> id,
              summary |-> IF body # <<>> THEN body ELSE fallbackSummary(id),
              releases |-> <<>>]

parseChangesetContent(content, id) ==
    LET frontmatterStart == findSeparator(content, 0)
        frontmatterEnd == IF frontmatterStart = 0 THEN 0
                          ELSE findSeparator(content, frontmatterStart)
    IN  IF frontmatterStart = 0 \/ frontmatterEnd = 0
        THEN [id |-> id,
              summary |-> IF trimLines(content) # <<>> THEN trimLines(content)
                          ELSE fallbackSummary(id),
              releases |-> <<>>]
        ELSE LET body == trimLines(SubSeq(content, frontmatterEnd + 1, Len(content)))
             IN  [id |-> id,
                  summary |-> IF body # <<>> THEN body ELSE fallbackSummary(id),
                  releases |-> parseReleases(
                      SubSeq(content, frontmatterStart + 1, frontmatterEnd - 1))]

\* parseChangesetContent on the texts the files of the repository hold,
\* worked out once per text and id
FileTexts == ManualTexts \cup {TextMajor}
parsedFileTexts ==
    [content \in FileTexts |->
        [id \in 0..NumIds |-> parseChangesetContent(content, id)]]
parseFile(content, id) ==
    IF content \in FileTexts /\ id \in 0..NumIds
    THEN parsedFileTexts[content][id]
    ELSE parseChangesetContent(content, id)

\* ---------------------------------------------------------------- the state
VARIABLES
    hasDir,     \* the .changeset directory exists in the working tree
    work,       \* record files of the working tree: file id -> text
    head,       \* record files of the HEAD commit: file id -> text
    otherDirty, \* some file outside .changeset differs from HEAD
    tags,       \* the tags in creation order: [name, tree]
    latest,     \* index in tags of the tag `git describe` reports; 0 if none
    sinceTag,   \* a commit was made after the newest tag was created
    pkg,        \* version field of package.json: {} when absent
    out,        \* what the last command printed / returned
    call,       \* the last direct call of a function of version-calc: [fn, args, ret]
    gitFails,   \* the git commands that fail when run (all of them outside a repository)
    released    \* history: the tag command tagged a HEAD that had every record
                \* file of the working tree, and no record file was added since

vars == <<hasDir, work, head, otherDirty, tags, latest, sinceTag, pkg, out, call,
          gitFails, released>>


\* ------------------------------------------------ changeset-reader: reading
Thrown == [ok |-> FALSE, val |-> <<>>]
Returned(v) == [ok |-> TRUE, val |-> v]

\* readFiles going on to the next file where the strict read throws
RECURSIVE readFiles_skipInvalid(_, _, _)
readFiles_skipInvalid(i, ignoreErrors, changesets) ==
    IF i > NumIds THEN Returned(changesets)
    ELSE IF i \notin DOMAIN work
         THEN readFiles_skipInvalid(i + 1, ignoreErrors, changesets)
    ELSE LET changeset == parseFile(work[i], i)
         IN  IF changeset.releases = <<>> /\ ~ignoreErrors
             THEN readFiles_skipInvalid(i + 1, ignoreErrors, changesets)
             ELSE readFiles_skipInvalid(i + 1, ignoreErrors,
                                        Append(changesets, changeset))

\* the for loop of readChangesets over the files from position i on;
\* readdirSync lists the files by name
RECURSIVE readFiles(_, _, _)
readFiles(i, ignoreErrors, changesets) ==
    IF i > NumIds THEN Returned(changesets)
    ELSE IF i \notin DOMAIN work THEN readFiles(i + 1, ignoreErrors, changesets)
    ELSE LET changeset == parseFile(work[i], i)
         IN  IF changeset.releases = <<>> /\ ~ignoreErrors
             THEN Thrown
             ELSE readFiles(i + 1, ignoreErrors, Append(changesets, changeset))

\* readChangesets taking a missing directory for an empty one
readChangesets_emptyWhenMissing(ignoreErrors) ==
    IF ~hasDir THEN Returned(<<>>)
    ELSE readFiles(1, ignoreErrors, <<>>)

readChangesets(ignoreErrors) ==
    IF ~hasDir THEN Thrown
    ELSE readFiles(1, ignoreErrors, <<>>)

\* readChangesets(cwd) in a try whose catch returns 0
getChangesetCount ==
    IF readChangesets(FALSE).ok THEN Len(readChangesets(FALSE).val) ELSE 0

\* --------------------------------------------------------------- git-ops
TagNames == {tags[i].name : i \in 1..Len(tags)}
TreeOf(name) == (CHOOSE i \in 1..Len(tags) : tags[i].name = name)

\* the tag pattern /^v?\d+\.\d+\.\d+$/
IsVersionTag(name) == name.ok /\ ~name.pre

\* --sort=-version:refname
RECURSIVE sortDescending(_)
sortDescending(names) ==
    IF names = {} THEN <<>>
    ELSE LET top == CHOOSE n \in names : \A m \in names \ {n} : VersionGT(n, m)
         IN  <<top>> \o sortDescending(names \ {top})

\* git tag -l --sort=-version:refname; the catch returns []
getAllVersionTags ==
    IF "tag" \in gitFails THEN <<>>
    ELSE sortDescending({n \in TagNames : IsVersionTag(n)})

\* git describe --tags --abbrev=0 2>/dev/null || echo "v0.0.0"
getLatestTaggedVersion ==
    IF "describe" \in gitFails \/ latest = 0 THEN ZeroVersion ELSE tags[latest].name

\* a date: the author date of the commit a tag points at, or the current time
CommitDate(version) == [at |-> "commit", tag |-> {version}]
Now == [at |-> "now", tag |-> {}]

\* git log -1 --format=%aI v<version>; the catch returns new Date()
getTagDate(version) ==
    IF "log" \in gitFails THEN Now ELSE CommitDate(version)

\* git ls-tree -r --name-only v<tagName> .changeset/ : the file ids, by name;
\* no file when there is no such tag
\* getChangesetFilesAtTag whose listing cannot fail
getChangesetFilesAtTag_noFailure(tagName) ==
    IF tagName \in TagNames THEN DOMAIN tags[TreeOf(tagName)].tree ELSE {}

getChangesetFilesAtTag(tagName) ==
    IF "ls-tree" \in gitFails THEN {}
    ELSE IF tagName \in TagNames THEN DOMAIN tags[TreeOf(tagName)].tree ELSE {}

\* git show v<tagName>:<file>; the catch returns null, which is as falsy as
\* the empty text
getFileContentAtTag(tagName, file) ==
    IF "show" \in gitFails THEN <<>> ELSE tags[TreeOf(tagName)].tree[file]

\* the for loop of getChangesetsAtTag over the files from position i on
RECURSIVE readFilesAtTag(_, _, _, _)
readFilesAtTag(tagName, i, ignoreErrors, results) ==
    IF i > NumIds THEN Returned(results)
    ELSE IF i \notin getChangesetFilesAtTag(tagName)
         THEN readFilesAtTag(tagName, i + 1, ignoreErrors, results)
    ELSE LET content == getFileContentAtTag(tagName, i)
             changeset == parseFile(content, i)
         IN  IF content = <<>>
             THEN IF ignoreErrors
                  THEN readFilesAtTag(tagName, i + 1, ignoreErrors, results)
                  ELSE Thrown
             ELSE IF changeset.releases = <<>> /\ ~ignoreErrors THEN Thrown
             ELSE readFilesAtTag(tagName, i + 1, ignoreErrors,
                      IF changeset.releases # <<>>
                      THEN Append(results, changeset) ELSE results)

\* getChangesetsAtTag rethrowing in its catch whatever the option says
getChangesetsAtTag_alwaysStrict(tagName, ignoreErrors) ==
    readFilesAtTag(tagName, 1, FALSE, <<>>)

getChangesetsAtTag(tagName, ignoreErrors) ==
    readFilesAtTag(tagName, 1, ignoreErrors, <<>>)

\* git status --porcelain is not empty; the catch returns false
hasUncommittedChanges == "status" \notin gitFails /\ (work # head \/ otherDirty)


\* ------------------------------------------------------------ version-calc
\* str.includes(word)
contains(str, word) == \E i \in 1..Len(str) : startsAt(str, word, i)

\* lower.includes(word); no keyword has a line break in it
includes(lower, word) == \E i \in 1..Len(lower) : contains(lower[i], word)

\* categorizeChange asking for deprecat before remove / delete
categorizeChange_deprecatedFirst(summary) ==
    LET lower == [i \in 1..Len(summary) |-> toLowerCase(summary[i])]
    IN  IF includes(lower, "add") \/ includes(lower, "new")
              \/ includes(lower, "feature") THEN "added"
        ELSE IF includes(lower, "fix") \/ includes(lower, "bug")
              \/ includes(lower, "resolve") THEN "fixed"
        ELSE IF includes(lower, "deprecat") THEN "deprecated"
        ELSE IF includes(lower, "remove") \/ includes(lower, "delete")
             THEN "removed"
        ELSE IF includes(lower, "security") \/ includes(lower, "vulnerabilit")
             THEN "security"
        ELSE "changed"

categorizeChange(summary) ==
    LET lower == [i \in 1..Len(summary) |-> toLowerCase(summary[i])]
    IN  IF includes(lower, "add") \/ includes(lower, "new")
              \/ includes(lower, "feature") THEN "added"
        ELSE IF includes(lower, "fix") \/ includes(lower, "bug")
              \/ includes(lower, "resolve") THEN "fixed"
        ELSE IF includes(lower, "remove") \/ includes(lower, "delete")
             THEN "removed"
        ELSE IF includes(lower, "deprecat") THEN "deprecated"
        ELSE IF includes(lower, "security") \/ includes(lower, "vulnerabilit")
             THEN "security"
        ELSE "changed"

\* categorizeChange on the summaries of the repository's files, worked out
\* once per summary
categorizedFileTexts ==
    [summary \in {parsedFileTexts[content][id].summary :
                    content \in FileTexts, id \in 0..NumIds} |->
        categorizeChange(summary)]
categoryOf(summary) ==
    IF summary \in DOMAIN categorizedFileTexts
    THEN categorizedFileTexts[summary]
    ELSE categorizeChange(summary)

\* scanReleases with the `highestLevel === 'none'` test of the patch branch lost
RECURSIVE scanReleases_patchOverrides(_, _)
scanReleases_patchOverrides(releases, highestLevel) ==
    IF releases = <<>> THEN highestLevel
    ELSE IF Head(releases) = "major" THEN "major"
    ELSE IF Head(releases) = "minor" /\ highestLevel # "minor"
         THEN scanReleases_patchOverrides(Tail(releases), "minor")
    ELSE IF Head(releases) = "patch"
         THEN scanReleases_patchOverrides(Tail(releases), "patch")
    ELSE scanReleases_patchOverrides(Tail(releases), highestLevel)

\* the inner loop of getHighestBumpLevel over one record's releases;
\* "major" is the early return
RECURSIVE scanReleases(_, _)
scanReleases(releases, highestLevel) ==
    IF releases = <<>> THEN highestLevel
    ELSE IF Head(releases) = "major" THEN "major"
    ELSE IF Head(releases) = "minor" /\ highestLevel # "minor"
         THEN scanReleases(Tail(releases), "minor")
    ELSE IF Head(releases) = "patch" /\ highestLevel = "none"
         THEN scanReleases(Tail(releases), "patch")
    ELSE scanReleases(Tail(releases), highestLevel)

\* the outer loop of getHighestBumpLevel
RECURSIVE scanChangesets(_, _)
scanChangesets(changesets, highestLevel) ==
    IF changesets = <<>> THEN highestLevel
    ELSE LET level == scanReleases(Head(changesets).releases, highestLevel)
         IN  IF level = "major" THEN "major"
             ELSE scanChangesets(Tail(changesets), level)

getHighestBumpLevel(changesets) == scanChangesets(changesets, "none")

\* newSinceLatestTag comparing whole records instead of ids
newSinceLatestTag_byRecord(allChangesets, changesetsAtLatestTag) ==
    SelectSeq(allChangesets,
              LAMBDA cs : ~\E k \in 1..Len(changesetsAtLatestTag) :
                              changesetsAtLatestTag[k] = cs)

\* allChangesets.filter(cs => !changesetsAtLatestTag.some(t => t.id === cs.id))
newSinceLatestTag(allChangesets, changesetsAtLatestTag) ==
    SelectSeq(allChangesets,
              LAMBDA cs : ~\E k \in 1..Len(changesetsAtLatestTag) :
                              changesetsAtLatestTag[k].id = cs.id)

\* changesetsAtTag.filter(cs => !changesetsAtPreviousTag.some(p => p.id === cs.id))
newAtTag(changesetsAtTag, changesetsAtPreviousTag) ==
    SelectSeq(changesetsAtTag,
              LAMBDA cs : ~\E k \in 1..Len(changesetsAtPreviousTag) :
                              changesetsAtPreviousTag[k].id = cs.id)

\* newChangesets.map(cs => ({type: categorizeChange(cs.summary), summary})).
\* The field `of` is not in the code: it remembers the record a change was
\* made from, so that attribution can be stated.
toChanges(newChangesets) ==
    [k \in 1..Len(newChangesets) |->
        [type |-> categoryOf(newChangesets[k].summary),
         summary |-> newChangesets[k].summary,
         of |-> newChangesets[k].id]]

\* getCurrentVersion trying package.json before the tags
getCurrentVersion_packageFirst ==
    IF pkg # {} /\ pkg # {ZeroVersion} THEN CHOOSE v \in pkg : TRUE
    ELSE getLatestTaggedVersion

\* lines 233-254; the final fallback returns what an absent or 0.0.0 latest
\* tag is reported as
getCurrentVersion ==
    IF getLatestTaggedVersion # ZeroVersion THEN getLatestTaggedVersion
    ELSE IF pkg # {} /\ pkg # {ZeroVersion} THEN CHOOSE v \in pkg : TRUE
    ELSE ZeroVersion

\* incrementVersion without the pre-release handling of lines 64-67
incrementVersion_keepPrerelease(currentVersion, highestBumpLevel) ==
    semverInc(currentVersion, highestBumpLevel)

\* lines 62-69 of getUpcomingVersion: the version handed to semver.inc and
\* its result; {} stands for null
incrementVersion(currentVersion, highestBumpLevel) ==
    LET versionToIncrement ==
            IF semverPrerelease(currentVersion)
            THEN stripPrerelease(currentVersion) ELSE currentVersion
    IN  semverInc(versionToIncrement, highestBumpLevel)

\* {} stands for null; every exception ends in the catch, which returns null
\* getUpcomingVersion from the bump level on: the increment and the entry
upcomingOfLevel(newChangesets, highestBumpLevel, upcomingVersion) ==
    IF highestBumpLevel = "none" THEN {}
    ELSE IF upcomingVersion = {} THEN {}
    ELSE {[version |-> CHOOSE v \in upcomingVersion : TRUE,
           date |-> Now,
           changes |-> toChanges(newChangesets),
           isUpcoming |-> TRUE]}

\* getUpcomingVersion from the new records on
upcomingOfNew(newChangesets, highestBumpLevel) ==
    IF newChangesets = <<>> THEN {}
    ELSE upcomingOfLevel(newChangesets, highestBumpLevel,
                         incrementVersion(getCurrentVersion, highestBumpLevel))

\* getUpcomingVersion from the two reads on; a read that threw ends the try
\* block
upcomingOfReads(allChangesets, changesetsAtLatestTag, newChangesets) ==
    IF ~allChangesets.ok THEN {}
    ELSE IF allChangesets.val = <<>> THEN {}
    ELSE IF ~changesetsAtLatestTag.ok THEN {}
    ELSE upcomingOfNew(newChangesets, getHighestBumpLevel(newChangesets))

\* getUpcomingVersion after readChangesets
upcomingOfAll(allChangesets, changesetsAtLatestTag) ==
    upcomingOfReads(allChangesets, changesetsAtLatestTag,
        IF getLatestTaggedVersion # ZeroVersion
        THEN newSinceLatestTag(allChangesets.val, changesetsAtLatestTag.val)
        ELSE allChangesets.val)

getUpcomingVersion(ignoreErrors) ==
    upcomingOfAll(readChangesets(ignoreErrors),
        IF getLatestTaggedVersion # ZeroVersion
        THEN getChangesetsAtTag(getLatestTaggedVersion, ignoreErrors)
        ELSE Returned(<<>>))

\* getPreviousTag that never finds a predecessor
getPreviousTag_none(version) == {}

\* getPreviousTag stepping to the newer neighbour, allTags[currentIndex - 1]
getPreviousTag_newer(version) ==
    LET allTags == getAllVersionTags
        at == {k \in 1..Len(allTags) : allTags[k] = version}
    IN  IF at = {} \/ at = {1} THEN {}
        ELSE {allTags[(CHOOSE k \in at : TRUE) - 1]}

\* allTags[allTags.indexOf(version) + 1], {} for null
getPreviousTag(version) ==
    LET allTags == getAllVersionTags
        at == {k \in 1..Len(allTags) : allTags[k] = version}
    IN  IF at = {} \/ at = {Len(allTags)} THEN {}
        ELSE {allTags[(CHOOSE k \in at : TRUE) + 1]}

\* getHistoricalVersion after the two reads
historicalOfReads(version, changesetsAtTag, changesetsAtPreviousTag) ==
    IF ~changesetsAtTag.ok \/ ~changesetsAtPreviousTag.ok THEN Thrown
    ELSE Returned([version |-> version,
                   date |-> getTagDate(version),
                   changes |-> toChanges(newAtTag(changesetsAtTag.val,
                                                  changesetsAtPreviousTag.val)),
                   isUpcoming |-> FALSE])

\* getHistoricalVersion after getPreviousTag
historicalOfPrevious(version, ignoreErrors, previousTag) ==
    historicalOfReads(version, getChangesetsAtTag(version, ignoreErrors),
        IF previousTag # {}
        THEN getChangesetsAtTag(CHOOSE t \in previousTag : TRUE, ignoreErrors)
        ELSE Returned(<<>>))

getHistoricalVersion(version, ignoreErrors) ==
    historicalOfPrevious(version, ignoreErrors, getPreviousTag(version))

\* ------------------------------------------------------------ environment
\* names (without the v) of tags created by hand with `git tag v<name>`
ManualTagNames == {ZeroVersion, Version(1, 0, 0, FALSE), Version(1, 0, 0, TRUE)}

NoCall == [fn |-> "none", args |-> <<>>, ret |-> <<>>]

NoOut == [cmd |-> "none", exit |-> 0, msg |-> "", upcoming |-> {},
          entries |-> <<>>, wrote |-> FALSE, opts |-> <<>>, status |-> <<>>]

Init ==
    /\ hasDir = FALSE
    /\ work = <<>>
    /\ head = <<>>
    /\ otherDirty = FALSE
    /\ tags = <<>>
    /\ latest = 0
    /\ sinceTag = FALSE
    /\ pkg = {}
    /\ out = NoOut
    /\ call = NoCall
    /\ gitFails = {}
    /\ released = FALSE

\* every file id that occurs in the working tree, HEAD or a tag
UsedIds ==
    DOMAIN work \cup DOMAIN head
        \cup UNION {DOMAIN tags[i].tree : i \in 1..Len(tags)}

UsedIdsAtTags == UNION {DOMAIN tags[i].tree : i \in 1..Len(tags)}

\* generateChangesetId(): a timestamp-prefixed name, later than every
\* earlier one
generateChangesetId ==
    IF UsedIds = {} THEN 1
    ELSE (CHOOSE m \in UsedIds : \A u \in UsedIds : u <= m) + 1

WithFile(tree, id, text) ==
    [i \in DOMAIN tree \cup {id} |-> IF i = id THEN text ELSE tree[i]]

\* changesets-digger add --type T --message M
addCommand(text) ==
    /\ out = NoOut
    /\ generateChangesetId \in Ids
    /\ hasDir' = TRUE
    /\ otherDirty' = (otherDirty \/ ~hasDir)   \* README.md comes with the directory
    /\ work' = WithFile(work, generateChangesetId, text)
    /\ out' = [NoOut EXCEPT !.cmd = "add"]
    /\ released' = FALSE
    /\ UNCHANGED <<gitFails, call, head, tags, latest, sinceTag, pkg>>

\* a record file written by hand, without a header block
WriteInvalid ==
    /\ out = NoOut
    /\ generateChangesetId \in Ids
    /\ hasDir' = TRUE
    /\ work' = WithFile(work, generateChangesetId, TextBad)
    /\ out' = NoOut
    /\ released' = FALSE
    /\ UNCHANGED <<gitFails, call, head, otherDirty, tags, latest, sinceTag, pkg>>

\* an edit of a file outside .changeset
TouchOther ==
    /\ out = NoOut
    /\ ~otherDirty
    /\ otherDirty' = TRUE
    /\ out' = NoOut
    /\ UNCHANGED <<gitFails, released, call, hasDir, work, head, tags, latest, sinceTag, pkg>>

\* git add . && git commit
Commit ==
    /\ out = NoOut
    /\ hasUncommittedChanges
    /\ head' = work
    /\ otherDirty' = FALSE
    /\ sinceTag' = (tags # <<>>)
    /\ out' = NoOut
    /\ UNCHANGED <<gitFails, released, call, hasDir, work, tags, latest, pkg>>

\* git tag v<name> at HEAD.  With another tag on the same commit, which of
\* them `git describe --tags --abbrev=0` reports depends on the tags' kinds
\* and dates: either.
gitTag(name) ==
    /\ name \notin TagNames
    /\ Len(tags) < MaxTags
    /\ tags' = Append(tags, [name |-> name, tree |-> head])
    /\ latest' \in (IF sinceTag \/ tags = <<>> THEN {} ELSE {latest})
                       \cup {Len(tags) + 1}
    /\ sinceTag' = FALSE

ManualTag(name) ==
    /\ out = NoOut
    /\ gitTag(name)
    /\ out' = NoOut
    /\ UNCHANGED <<gitFails, released, call, hasDir, work, head, otherDirty, pkg>>

\* -------------------------------------------------------------- cli/generate
DefaultMaxVersions == 10
\* the default of --output, and the directory of the record files
DefaultOutput == "src/assets/changelogs"
RecordsDir == ".changeset"

\* the loop with allVersions.unshift(entry) in place of push
RECURSIVE historicalEntries_unshift(_, _, _, _)
historicalEntries_unshift(historicalVersions, k, ignoreErrors, allVersions) ==
    IF k > Len(historicalVersions) THEN Returned(allVersions)
    ELSE LET entry == getHistoricalVersion(historicalVersions[k], ignoreErrors)
         IN  IF ~entry.ok THEN Thrown
             ELSE historicalEntries_unshift(historicalVersions, k + 1, ignoreErrors,
                                            <<entry.val>> \o allVersions)

\* the for loop over historicalVersions from position k on
RECURSIVE historicalEntries(_, _, _, _)
historicalEntries(historicalVersions, k, ignoreErrors, allVersions) ==
    IF k > Len(historicalVersions) THEN Returned(allVersions)
    ELSE LET entry == getHistoricalVersion(historicalVersions[k], ignoreErrors)
         IN  IF ~entry.ok THEN Thrown
             ELSE historicalEntries(historicalVersions, k + 1, ignoreErrors,
                                    Append(allVersions, entry.val))

\* maxHistoricalVersions without the slot kept for the upcoming entry
maxHistoricalVersions_noReserve(upcomingVersion, maxVersions) == maxVersions

\* upcomingVersion ? maxVersions - 1 : maxVersions
maxHistoricalVersions(upcomingVersion, maxVersions) ==
    IF upcomingVersion # {} THEN maxVersions - 1 ELSE maxVersions

\* array.slice(0, n) for n >= 0
slice(array, n) == SubSeq(array, 1, IF n < Len(array) THEN n ELSE Len(array))

\* step 3 of generate, and its catch: what is printed and written
\* opts[4] is the value of --output.
generateOutput(upcomingVersion, allVersions, opts, dryRun) ==
    /\ out = NoOut
    /\ out' =
        IF ~allVersions.ok
        THEN [NoOut EXCEPT !.cmd = "generate", !.opts = opts, !.exit = 1,
                           !.upcoming = upcomingVersion,
                           !.msg = "Error generating changelogs"]
        ELSE IF allVersions.val = <<>>
        THEN [NoOut EXCEPT !.cmd = "generate", !.opts = opts,
                           !.upcoming = upcomingVersion,
                           !.msg = "No versions found to generate changelogs for"]
        ELSE [NoOut EXCEPT !.cmd = "generate", !.opts = opts,
                           !.upcoming = upcomingVersion,
                           !.entries = allVersions.val,
                           !.wrote = ~dryRun,
                           !.msg = "Generating changelog files"]
    \* generateChangelogs removes the output directory with all it holds,
    \* makes it anew and writes the changelog files into it.  When it is the
    \* records directory no record file is left; the changelog files then in
    \* it are not kept in `work`.
    /\ IF allVersions.ok /\ allVersions.val # <<>> /\ ~dryRun
       THEN IF opts[4] = RecordsDir
            THEN hasDir' = TRUE /\ work' = <<>> /\ UNCHANGED otherDirty
            ELSE otherDirty' = TRUE /\ UNCHANGED <<hasDir, work>>
       ELSE UNCHANGED <<hasDir, work, otherDirty>>
    /\ UNCHANGED <<gitFails, released, call, head, tags, latest, sinceTag, pkg>>

\* step 2 of generate: the historical entries behind the upcoming one
generateHistorical(output, upcomingVersion, ignoreErrors, maxVersionsOpt, dryRun) ==
    generateOutput(upcomingVersion,
        historicalEntries(
            slice(getAllVersionTags,
                  maxHistoricalVersions(upcomingVersion,
                      IF maxVersionsOpt # 0 THEN maxVersionsOpt
                      ELSE DefaultMaxVersions)),
            1, ignoreErrors,
            IF upcomingVersion # {}
            THEN <<CHOOSE e \in upcomingVersion : TRUE>> ELSE <<>>),
        <<ignoreErrors, maxVersionsOpt, dryRun, output>>, dryRun)

\* changesets-digger generate -o <output> [--ignore-errors] [--dry-run]
\* -m <maxVersionsOpt>
generateCommand(output, ignoreErrors, maxVersionsOpt, dryRun) ==
    generateHistorical(output, getUpcomingVersion(ignoreErrors),
                       ignoreErrors, maxVersionsOpt, dryRun)

\* -------------------------------------------------------- cli/tag, version
\* createAndPushTag(version): `git tag v<version>` fails when the tag exists
createAndPushTag(version) == gitTag(version)

\* changesets-digger tag [--dry-run] [--force] --no-push
\* the tag command after getUpcomingVersion
tagUpcoming(upcomingVersion, dryRun, force) ==
    LET version == (CHOOSE e \in upcomingVersion : TRUE).version
        said(exit, msg) == [NoOut EXCEPT !.cmd = "tag", !.opts = <<dryRun, force>>,
                                         !.exit = exit, !.msg = msg,
                                         !.upcoming = upcomingVersion]
        same == UNCHANGED <<tags, latest, sinceTag, released>>
    IN  /\ out = NoOut
        /\ IF ~force /\ hasUncommittedChanges
           THEN /\ out' = [said(1, "Working directory has uncommitted changes")
                              EXCEPT !.upcoming = {}]
                /\ same
           ELSE IF upcomingVersion = {}
           THEN out' = said(0, "No changesets found - nothing to release") /\ same
           ELSE IF dryRun
           THEN out' = said(0, "DRY RUN - Would create tag") /\ same
           ELSE IF version \in TagNames
           THEN out' = said(1, "Error creating tag") /\ same
           ELSE /\ createAndPushTag(version)
                /\ out' = said(0, "Release tag created successfully")
                /\ released' = (work = head)
        /\ UNCHANGED <<gitFails, call, hasDir, work, head, otherDirty, pkg>>

tagCommand(dryRun, force) == tagUpcoming(getUpcomingVersion(FALSE), dryRun, force)

\* the object getVersionStatus returns
statusOf(current, upcomingVersion) ==
    [current |-> current,
     upcoming |-> {e.version : e \in upcomingVersion},
     hasChanges |-> upcomingVersion # {},
     changeCount |-> IF upcomingVersion = {} THEN 0
                     ELSE Len((CHOOSE e \in upcomingVersion : TRUE).changes)]

\* getVersionStatus() without options
getVersionStatus == statusOf(getCurrentVersion, getUpcomingVersion(FALSE))

\* changesets-digger version --output json
versionCommand ==
    /\ out = NoOut
    /\ out' = [NoOut EXCEPT !.cmd = "version", !.status = getVersionStatus]
    /\ UNCHANGED <<gitFails, released, call, hasDir, work, head, otherDirty, tags, latest, sinceTag, pkg>>

\* the command has returned; the next one starts from a fresh prompt
Clear ==
    /\ out # NoOut
    /\ out' = NoOut
    /\ UNCHANGED <<gitFails, released, call, hasDir, work, head, otherDirty, tags, latest, sinceTag, pkg>>

\* ------------------------------------------------------------ specifications
Env(texts) ==
    \/ Clear
    \/ \E text \in texts : addCommand(text)
    \/ WriteInvalid
    \/ Commit
    \/ \E name \in ManualTagNames : ManualTag(name)

Generate ==
    \E ignoreErrors \in BOOLEAN, maxVersionsOpt \in 1..MaxVersionsOpt :
        generateCommand(DefaultOutput, ignoreErrors, maxVersionsOpt, FALSE)

Next == Env({TextPatch}) \/ Generate

Spec == Init /\ [][Next]_vars

Tag == \E dryRun, force \in BOOLEAN : tagCommand(dryRun, force)

NextTag == Env(AddTexts) \/ TouchOther \/ Tag \/ versionCommand

SpecTag == Init /\ [][NextTag]_vars

\* ------------------------------------------------ every command and option
\* the last command wrote the changelogs into the records directory
RecordsDirRewritten ==
    out.cmd = "generate" /\ out.wrote /\ out.opts[4] = RecordsDir

GenerateInto ==
    \E output \in {DefaultOutput, RecordsDir}, ignoreErrors, dryRun \in BOOLEAN,
       maxVersionsOpt \in 1..MaxVersionsOpt :
        generateCommand(output, ignoreErrors, maxVersionsOpt, dryRun)

\* The histories are followed up to the first run of generate that writes
\* into the records directory.
NextAll ==
    \/ (~RecordsDirRewritten /\ Env({TextPatch}))
    \/ GenerateInto
    \/ Tag
    \/ versionCommand

SpecAll == Init /\ [][NextAll]_vars

\* --------------------------------------------------- failing git commands
\* the git commands the functions of git-ops run for their queries
GitCommands == {"tag", "describe", "ls-tree", "show", "log", "status"}

\* From now on the given git commands fail: one of them (an unreadable
\* object, a broken ref), or all of them after `rm -rf .git`.
GitBreaks(commands) ==
    /\ out = NoOut
    /\ gitFails = {}
    /\ gitFails' = commands
    /\ out' = NoOut
    /\ UNCHANGED <<released, call, hasDir, work, head, otherDirty, tags, latest, sinceTag, pkg>>

NextGit ==
    \/ (gitFails = {} /\ Env({TextPatch}))
    \/ (gitFails # {} /\ Clear)
    \/ \E commands \in {{c} : c \in GitCommands} \cup {GitCommands} : GitBreaks(commands)
    \/ Generate

SpecGit == Init /\ [][NextGit]_vars

\* ------------------------------------- direct calls with a base version
\* the version field of package.json: absent, 0.0.0, a version, or a string
\* that is no semantic version, such as "1.0"
PkgChoices == {{}, {ZeroVersion}, {Version(1, 0, 0, FALSE)}, {InvalidVersion}}

InitBase ==
    /\ hasDir = FALSE
    /\ work = <<>>
    /\ head = <<>>
    /\ otherDirty = FALSE
    /\ tags = <<>>
    /\ latest = 0
    /\ sinceTag = FALSE
    /\ pkg \in PkgChoices
    /\ out = NoOut
    /\ call = NoCall
    /\ gitFails = {}
    /\ released = FALSE

\* await getUpcomingVersion({ignoreErrors}): the try block spans the whole
\* body, so the call always returns
CallGetUpcomingVersion ==
    /\ out = NoOut /\ call = NoCall
    /\ \E ignoreErrors \in BOOLEAN :
        call' = [fn |-> "getUpcomingVersion", args |-> <<ignoreErrors>>,
                 ret |-> <<Returned(getUpcomingVersion(ignoreErrors))>>]
    /\ UNCHANGED <<gitFails, released, hasDir, work, head, otherDirty, tags, latest, sinceTag, pkg, out>>

\* getCurrentVersion()
CallGetCurrentVersion ==
    /\ out = NoOut /\ call = NoCall
    /\ call' = [fn |-> "getCurrentVersion", args |-> <<>>,
                ret |-> <<getCurrentVersion>>]
    /\ UNCHANGED <<gitFails, released, hasDir, work, head, otherDirty, tags, latest, sinceTag, pkg, out>>

\* the call has returned
BaseReturn ==
    /\ call # NoCall
    /\ call' = NoCall
    /\ UNCHANGED <<gitFails, released, hasDir, work, head, otherDirty, tags, latest, sinceTag, pkg, out>>

\* a tag made by hand whose name is no semantic version, such as v1.0
NextBase ==
    \/ (call = NoCall /\ Env({TextPatch}))
    \/ (call = NoCall /\ ManualTag(InvalidVersion))
    \/ CallGetUpcomingVersion
    \/ CallGetCurrentVersion
    \/ BaseReturn

SpecBase == InitBase /\ [][NextBase]_vars

\* ------------------------------------------- direct calls of the tagging
\* ------------------------------------- every tag made by the tag command
\* A repository with any package.json in which nobody tags by hand.
NextOwnTags ==
    \/ Clear
    \/ \E text \in AddTexts : addCommand(text)
    \/ WriteInvalid
    \/ Commit
    \/ TouchOther
    \/ Tag

SpecOwnTags == InitBase /\ [][NextOwnTags]_vars

\* createAndPushTag where a failed push is thrown on to the caller
createAndPushTagOutcome_pushThrows(created, push, remoteExists, pushFails) ==
    [ok |-> created /\ ~(push /\ remoteExists /\ pushFails),
     pushAttempted |-> created /\ push /\ remoteExists,
     pushed |-> created /\ push /\ remoteExists /\ ~pushFails]

\* What a call createAndPushTag(version, {push}) comes to: `git tag` made the
\* tag or failed, the remote is there or not, `git push` fails or not.  The
\* inner try keeps a failed push from the caller; the outer catch throws when
\* `git tag` failed.
createAndPushTagOutcome(created, push, remoteExists, pushFails) ==
    [ok |-> created,
     pushAttempted |-> created /\ push /\ remoteExists,
     pushed |-> created /\ push /\ remoteExists /\ ~pushFails]

\* createAndPushTag(version, {push}); the tags before the call are kept with
\* the result
CallCreateAndPushTag ==
    /\ out = NoOut /\ call = NoCall
    /\ \E version \in ManualTagNames, push, remoteExists, pushFails \in BOOLEAN :
        /\ call' = [fn |-> "createAndPushTag",
                    args |-> <<version, push, remoteExists, pushFails, tags>>,
                    ret |-> <<createAndPushTagOutcome(version \notin TagNames, push,
                                                      remoteExists, pushFails)>>]
        /\ IF version \in TagNames
           THEN UNCHANGED <<tags, latest, sinceTag>>
           ELSE createAndPushTag(version)
    /\ UNCHANGED <<gitFails, released, hasDir, work, head, otherDirty, pkg, out>>

NextPush ==
    \/ (call = NoCall /\ Env({TextPatch}))
    \/ CallCreateAndPushTag
    \/ BaseReturn

SpecPush == Init /\ [][NextPush]_vars

\* ------------------------------------------------ direct calls of the reads
\* await readChangesets('.', {ignoreErrors}); the snapshot read is kept with
\* the result
CallReadChangesets ==
    /\ out = NoOut /\ call = NoCall
    /\ \E ignoreErrors \in BOOLEAN :
        call' = [fn |-> "readChangesets",
                 args |-> <<ignoreErrors, hasDir, work>>,
                 ret |-> <<readChangesets(ignoreErrors)>>]
    /\ UNCHANGED <<gitFails, released, hasDir, work, head, otherDirty, tags, latest, sinceTag, pkg, out>>

\* getChangesetsAtTag(tagName, {ignoreErrors})
CallGetChangesetsAtTag ==
    /\ out = NoOut /\ call = NoCall
    /\ \E ignoreErrors \in BOOLEAN, tagName \in TagNames :
        call' = [fn |-> "getChangesetsAtTag",
                 args |-> <<ignoreErrors, tagName, tags[TreeOf(tagName)].tree>>,
                 ret |-> <<getChangesetsAtTag(tagName, ignoreErrors)>>]
    /\ UNCHANGED <<gitFails, released, hasDir, work, head, otherDirty, tags, latest, sinceTag, pkg, out>>

\* await getChangesetCount('.')
CallGetChangesetCount ==
    /\ out = NoOut /\ call = NoCall
    /\ call' = [fn |-> "getChangesetCount", args |-> <<hasDir, work>>,
                ret |-> <<getChangesetCount>>]
    /\ UNCHANGED <<gitFails, released, hasDir, work, head, otherDirty, tags, latest, sinceTag, pkg, out>>

\* the call has returned
ReadReturn ==
    /\ call # NoCall
    /\ call' = NoCall
    /\ UNCHANGED <<gitFails, released, hasDir, work, head, otherDirty, tags, latest, sinceTag, pkg, out>>

NextRead ==
    \/ (call = NoCall /\ Env(AddTexts))
    \/ CallReadChangesets
    \/ CallGetChangesetsAtTag
    \/ CallGetChangesetCount
    \/ ReadReturn

SpecRead == Init /\ [][NextRead]_vars

\* ------------------------------------------- direct calls of version-calc
\* A snapshot's record set: distinct ids in name order, any summary.
PureSummaries == {<<"Fix critical bug">>, <<"Add new feature">>}
PureSnapshotChoices == [1..MaxPureIds -> {<<>>} \cup PureSummaries]
RECURSIVE snapshotFrom(_, _)
snapshotFrom(choice, i) ==
    IF i > MaxPureIds THEN <<>>
    ELSE (IF choice[i] = <<>> THEN <<>>
          ELSE <<[id |-> i, summary |-> choice[i], releases |-> <<"patch">>]>>)
         \o snapshotFrom(choice, i + 1)
PureSnapshots == {snapshotFrom(c, 1) : c \in PureSnapshotChoices}

\* release lists a header block can produce: none, one, or two type lines
PureReleases == {<<>>, <<"patch">>, <<"minor">>, <<"major">>, <<"patch", "minor">>}
PureRecordLists ==
    UNION {[1..n -> PureReleases] : n \in 0..MaxPureLen}
recordsFrom(releaseList) ==
    [i \in 1..Len(releaseList) |->
        [id |-> i, summary |-> fallbackSummary(i), releases |-> releaseList[i]]]

PureVersions ==
    {Version(a, b, c, p) : a \in 0..MaxVerPart, b \in 0..MaxVerPart,
                           c \in 0..MaxVerPart, p \in BOOLEAN}
        \cup {InvalidVersion}

CallFilter ==
    /\ call = NoCall
    /\ \E a \in PureSnapshots, b \in PureSnapshots :
        call' = [fn |-> "filter", args |-> <<a, b>>,
                 ret |-> <<newSinceLatestTag(a, b), newAtTag(a, b)>>]
    /\ UNCHANGED <<gitFails, released, hasDir, work, head, otherDirty, tags, latest, sinceTag, pkg, out>>

CallGetHighestBumpLevel ==
    /\ call = NoCall
    /\ \E releaseList \in PureRecordLists :
        call' = [fn |-> "getHighestBumpLevel", args |-> <<recordsFrom(releaseList)>>,
                 ret |-> <<getHighestBumpLevel(recordsFrom(releaseList))>>]
    /\ UNCHANGED <<gitFails, released, hasDir, work, head, otherDirty, tags, latest, sinceTag, pkg, out>>

CallIncrementVersion ==
    /\ call = NoCall
    /\ \E v \in PureVersions, level \in Severities :
        call' = [fn |-> "incrementVersion", args |-> <<v, level>>,
                 ret |-> <<incrementVersion(v, level)>>]
    /\ UNCHANGED <<gitFails, released, hasDir, work, head, otherDirty, tags, latest, sinceTag, pkg, out>>

\* summaries handed to categorizeChange: one or two lines
PureSummaryLines ==
    {"Remove deprecated API endpoints", "Add new feature for users",
     "Fix critical bug in payment", "Update documentation", "FIX LOGIN",
     "Deprecate the old client", "Security hardening", "Delete stale caches",
     "Address a vulnerability", "Resolved a crash"}
PureCategorySummaries ==
    {<<l>> : l \in PureSummaryLines}
        \cup {<<"Update documentation", l>> : l \in PureSummaryLines}
        \cup {<<"Security hardening", l>> : l \in PureSummaryLines}

CallCategorizeChange ==
    /\ call = NoCall
    /\ \E summary \in PureCategorySummaries :
        call' = [fn |-> "categorizeChange", args |-> <<summary>>,
                 ret |-> <<categorizeChange(summary)>>]
    /\ UNCHANGED <<gitFails, released, hasDir, work, head, otherDirty, tags, latest, sinceTag, pkg, out>>

\* texts handed to the parser: any lines, up to MaxPureLen of them
PureLines == {SepLine, " --- ", BlankLine, "  ", "type: patch", "Plain text",
              "  indented text  "}
PureFreeTexts == UNION {[1..n -> PureLines] : n \in 0..MaxPureLen}

\* header lines: the type key with good and bad values, and other keys
PureHeaderLines ==
    TypeLines \cup
    {"type: \"minor\"", "type: 'patch'", "type:major", "type  :  minor",
     "type: Major", "type: MINOR", "type: majority", "type: patchwork",
     "type: \"major", "type: feature", "type:", " type: patch",
     "types: patch", "bump: major"}
\* texts with a header block of no, one or two lines
PureHeaderTexts ==
    {<<SepLine, SepLine, "Body">>}
        \cup {<<SepLine, l, SepLine, BlankLine, "Body">> : l \in PureHeaderLines}
        \cup {<<SepLine, "bump: major", l, SepLine, "Body">> : l \in PureHeaderLines}

CallParseChangesetContent ==
    /\ call = NoCall
    /\ \E content \in PureFreeTexts \cup PureHeaderTexts, id \in 1..MaxPureIds :
        call' = [fn |-> "parseChangesetContent", args |-> <<content, id>>,
                 ret |-> <<parseChangesetContent(content, id)>>]
    /\ UNCHANGED <<gitFails, released, hasDir, work, head, otherDirty, tags, latest, sinceTag, pkg, out>>

CallReturn ==
    /\ call # NoCall
    /\ call' = NoCall
    /\ UNCHANGED <<gitFails, released, hasDir, work, head, otherDirty, tags, latest, sinceTag, pkg, out>>

NextPure ==
    \/ CallFilter
    \/ CallGetHighestBumpLevel
    \/ CallIncrementVersion
    \/ CallCategorizeChange
    \/ CallParseChangesetContent
    \/ CallReturn

SpecPure == Init /\ [][NextPure]_vars

\* ------------------------------------------------- record ids by file name
\* The repository above numbers its record files: they carry names of the
\* kind the add command generates, for which the two derivations below give
\* the same id.  Here the names are spelled out.
\* str.endsWith(suffix)
endsWith(str, suffix) ==
    /\ Len(str) >= Len(suffix)
    /\ SubSeq(str, Len(str) - Len(suffix) + 1, Len(str)) = suffix

\* str.indexOf(word), counted from 1; 0 when word does not occur
indexOf(str, word) ==
    IF contains(str, word)
    THEN CHOOSE i \in 1..Len(str) :
            startsAt(str, word, i) /\ \A j \in 1..(i - 1) : ~startsAt(str, word, j)
    ELSE 0

\* str.lastIndexOf(word), counted from 1; 0 when word does not occur
lastIndexOf(str, word) ==
    IF contains(str, word)
    THEN CHOOSE i \in 1..Len(str) :
            startsAt(str, word, i)
                /\ \A j \in (i + 1)..Len(str) : ~startsAt(str, word, j)
    ELSE 0

\* str.replace(word, ''): a string pattern replaces its first occurrence only
replaceFirst(str, word) ==
    IF indexOf(str, word) = 0 THEN str
    ELSE SubSeq(str, 1, indexOf(str, word) - 1)
            \o SubSeq(str, indexOf(str, word) + Len(word), Len(str))

\* path.join(dir, file)
pathJoin(dir, file) == dir \o "/" \o file

\* path.basename(filePath, ext): the part after the last slash, without ext
\* when it ends with ext and is more than ext
basename(filePath, ext) ==
    LET base == SubSeq(filePath, lastIndexOf(filePath, "/") + 1, Len(filePath))
    IN  IF endsWith(base, ext) /\ base # ext
        THEN SubSeq(base, 1, Len(base) - Len(ext))
        ELSE base

\* the filter of both listings: file.endsWith('.md') && !file.includes('README')
isRecordFile(file) == endsWith(file, ".md") /\ ~contains(file, "README")

\* parseChangesetFile: the id of a file of the working tree
parseChangesetFileId(filePath) == basename(filePath, ".md")

\* getChangesetsAtTag: the id of a file listed at a tag
idAtTag(file) == replaceFirst(replaceFirst(file, RecordsDir \o "/"), ".md")

\* Names a file of .changeset may have, in name order: written by the add
\* command (generateChangesetId), written by hand, and files that are no
\* records.
FileNames ==
    <<"README.md", "config.json", "docs.mdx-support.md", "feature-auth.md",
      "lx2k9q3f-a1b2c3.md", "notes.md.old.md", "update-readme.md", "v1.0.0.md">>
GeneratedNames == {"lx2k9q3f-a1b2c3.md"}

\* readdirSync(.changeset) filtered and joined with the directory
RECURSIVE workingTreeFiles(_, _)
workingTreeFiles(present, i) ==
    IF i > Len(FileNames) THEN <<>>
    ELSE (IF i \in present /\ isRecordFile(FileNames[i])
          THEN <<pathJoin(RecordsDir, FileNames[i])>> ELSE <<>>)
         \o workingTreeFiles(present, i + 1)

\* git ls-tree -r --name-only <tag> .changeset/, filtered
RECURSIVE tagFiles(_, _)
tagFiles(present, i) ==
    IF i > Len(FileNames) THEN <<>>
    ELSE (IF i \in present /\ isRecordFile(pathJoin(RecordsDir, FileNames[i]))
          THEN <<pathJoin(RecordsDir, FileNames[i])>> ELSE <<>>)
         \o tagFiles(present, i + 1)

\* the records readChangesets returns for files that all hold content
recordsOfWorkingTree(present, content) ==
    [k \in 1..Len(workingTreeFiles(present, 1)) |->
        parseChangesetContent(content,
            parseChangesetFileId(workingTreeFiles(present, 1)[k]))]

\* the records getChangesetsAtTag returns for files that all hold content
recordsAtTag(present, content) ==
    [k \in 1..Len(tagFiles(present, 1)) |->
        parseChangesetContent(content, idAtTag(tagFiles(present, 1)[k]))]

\* The files `present` of .changeset, each holding content, are read from the
\* working tree and from the latest tag, which has the same files, and the
\* two record lists are diffed as getUpcomingVersion diffs them.
CallReadBothWays ==
    /\ call = NoCall
    /\ \E present \in SUBSET (1..Len(FileNames)), content \in {TextPatch, TextMinor} :
        call' = [fn |-> "readBothWays",
                 args |-> <<present, content>>,
                 ret |-> <<recordsOfWorkingTree(present, content),
                           recordsAtTag(present, content),
                           newSinceLatestTag(recordsOfWorkingTree(present, content),
                                             recordsAtTag(present, content))>>]
    /\ UNCHANGED <<gitFails, released, hasDir, work, head, otherDirty, tags, latest, sinceTag, pkg, out>>

NextNames == CallReadBothWays \/ CallReturn

SpecNames == Init /\ [][NextNames]_vars

\* ================================================================ claims

\* the positions of `current` whose id does not occur in `previous`
KeptPositions(current, previous) ==
    {i \in 1..Len(current) :
        \A k \in 1..Len(previous) : previous[k].id # current[i].id}
\* the j-th smallest element of a set of positions
NthOf(positions, j) ==
    CHOOSE i \in positions : Cardinality({k \in positions : k < i}) = j - 1
\* result is exactly the records of current at the kept positions, in order
IsDiffOf(result, current, previous) ==
    /\ Len(result) = Cardinality(KeptPositions(current, previous))
    /\ \A j \in 1..Len(result) :
        result[j] = current[NthOf(KeptPositions(current, previous), j)]

\* C1: the new records of a snapshot are exactly the records of the current
\* set whose id does not occur in the previous set, compared by id only and in
\* the current set's order, in getUpcomingVersion and in getHistoricalVersion
\* alike; with an empty previous set the result is the current set.
C1_DiffIsExact ==
    call.fn = "filter" =>
        \A r \in 1..2 :
            /\ IsDiffOf(call.ret[r], call.args[1], call.args[2])
            /\ call.args[2] = <<>> => call.ret[r] = call.args[1]

\* a differ call where the previous set holds a record of the current set
\* under another summary, and another record of the current set is new
C1_Witness ==
    /\ call.fn = "filter"
    /\ \E i \in 1..Len(call.args[1]), k \in 1..Len(call.args[2]) :
        /\ call.args[1][i].id = call.args[2][k].id
        /\ call.args[1][i].summary # call.args[2][k].summary
    /\ Len(call.ret[1]) = 1
    /\ Len(call.args[1]) = 2
    /\ call.ret[2] = call.ret[1]

\* every release type carried by a record of the list
TypesOf(changesets) ==
    UNION {{changesets[i].releases[k] : k \in 1..Len(changesets[i].releases)} :
              i \in 1..Len(changesets)}
HighestOf(types) ==
    IF "major" \in types THEN "major"
    ELSE IF "minor" \in types THEN "minor"
    ELSE IF "patch" \in types THEN "patch"
    ELSE "none"
Orderings(n) ==
    {p \in [1..n -> 1..n] : \A i, j \in 1..n : p[i] = p[j] => i = j}
Permuted(changesets, p) == [i \in 1..Len(changesets) |-> changesets[p[i]]]

\* C2: getHighestBumpLevel returns the highest severity (major > minor >
\* patch) carried by any record, none when no record carries one; records
\* without a severity do not change the result, nor does the records' order.
C2_HighestSeverity ==
    call.fn = "getHighestBumpLevel" =>
        LET changesets == call.args[1]
        IN  /\ call.ret[1] = HighestOf(TypesOf(changesets))
            /\ \A p \in Orderings(Len(changesets)) :
                getHighestBumpLevel(Permuted(changesets, p)) = call.ret[1]
            /\ getHighestBumpLevel(
                   SelectSeq(changesets, LAMBDA cs : cs.releases # <<>>))
                 = call.ret[1]

\* a call where a minor record comes before a patch record and after an
\* unclassified one
C2_Witness ==
    /\ call.fn = "getHighestBumpLevel"
    /\ Len(call.args[1]) = 3
    /\ call.args[1][1].releases = <<>>
    /\ call.args[1][2].releases = <<"minor">>
    /\ call.args[1][3].releases = <<"patch">>
    /\ call.ret[1] = "minor"

\* the standard increment of a version without its pre-release suffix
Bumped(v, level) ==
    CASE level = "major" -> Version(v.maj + 1, 0, 0, FALSE)
      [] level = "minor" -> Version(v.maj, v.min + 1, 0, FALSE)
      [] level = "patch" -> Version(v.maj, v.min, v.pat + 1, FALSE)

\* C3: the upcoming version is the base version without its pre-release
\* suffix, incremented by the severity: major gives (major+1).0.0, minor
\* gives major.(minor+1).0, patch gives major.minor.(patch+1).
C3_Derive ==
    (call.fn = "incrementVersion" /\ call.args[1].ok) =>
        call.ret[1] = {Bumped(call.args[1], call.args[2])}

\* base 1.0.0-beta.1 with patch gives 1.0.1
C3_Witness ==
    /\ call.fn = "incrementVersion"
    /\ call.args[1] = Version(1, 0, 0, TRUE)
    /\ call.args[2] = "patch"
    /\ call.ret[1] = {Version(1, 0, 1, FALSE)}

\* ----------------------------------------------- claims about generate
Min(a, b) == IF a < b THEN a ELSE b
\* the entries of the last generate run that come after the upcoming one
Offset == IF out.upcoming # {} THEN 1 ELSE 0
HistoricalCount == Len(out.entries) - Offset
HistoricalEntry(k) == out.entries[Offset + k]
ChangeIds(entry) == {entry.changes[c].of : c \in 1..Len(entry.changes)}
\* a text from which the parser gets a severity
Classified(text) == parseFile(text, 0).releases # <<>>
\* the records of a tagged snapshot: its files that carry a severity
RecordIdsAt(name) ==
    {i \in DOMAIN tags[TreeOf(name)].tree : Classified(tags[TreeOf(name)].tree[i])}
GenerateDone == out.cmd = "generate" /\ out.exit = 0

\* C8: the changes of the entry of each emitted tag are the records at that
\* tag whose id is absent from the next-older tag of the full descending tag
\* list, also when that tag lies outside the maxVersions window; the oldest
\* tag lists all its records.  (Records: the files that carry a severity;
\* generate reads no others from a tag.)
C8_DiffAgainstFullList ==
    GenerateDone =>
        \A k \in 1..HistoricalCount :
            LET allTags == getAllVersionTags
                older == IF k < Len(allTags) THEN RecordIdsAt(allTags[k + 1]) ELSE {}
                changes == HistoricalEntry(k).changes
            IN  /\ ChangeIds(HistoricalEntry(k)) = RecordIdsAt(allTags[k]) \ older
                /\ \A c, d \in 1..Len(changes) : c < d => changes[c].of < changes[d].of

\* the window ends before the oldest tag, and the last entry inside it leaves
\* out a record of its tag that the tag outside the window already had
C8_Witness ==
    /\ GenerateDone
    /\ HistoricalCount = 1
    /\ Len(getAllVersionTags) = 2
    /\ RecordIdsAt(getAllVersionTags[2]) # {}
    /\ ChangeIds(HistoricalEntry(1)) # {}
    /\ ChangeIds(HistoricalEntry(1)) # RecordIdsAt(getAllVersionTags[1])

\* C9: with maxVersions M and T version tags, generate emits at most M
\* entries: the upcoming entry, if any, and then the first min(T, M-1) tags of
\* the descending list, or the first min(T, M) tags without an upcoming entry.
C9_MaxVersions ==
    out.cmd = "generate" =>
        LET M == out.opts[2]
            T == Len(getAllVersionTags)
        IN  /\ Len(out.entries) <= M
            /\ out.exit = 0 =>
                /\ HistoricalCount =
                     IF out.upcoming # {} THEN Min(T, M - 1) ELSE Min(T, M)
                /\ out.upcoming # {} => out.entries[1] \in out.upcoming
                /\ {HistoricalEntry(k).version : k \in 1..HistoricalCount}
                     = {getAllVersionTags[k] : k \in 1..HistoricalCount}

\* an upcoming entry and two tags under maxVersions = 2: the upcoming entry
\* and the most recent tag are emitted
C9_Witness ==
    /\ GenerateDone
    /\ out.opts[2] = 2
    /\ out.upcoming # {}
    /\ Len(getAllVersionTags) = 2
    /\ Len(out.entries) = 2

\* C10: at most one entry of the assembled list is the upcoming one and it
\* is the first; the others follow in the order of getAllVersionTags.
C10_UpcomingFirst ==
    out.cmd = "generate" =>
        /\ \A i \in 1..Len(out.entries) :
            out.entries[i].isUpcoming <=> (i = 1 /\ out.upcoming # {})
        /\ \A k \in 1..HistoricalCount :
            HistoricalEntry(k).version = getAllVersionTags[k]

\* an upcoming entry followed by two tags, the tag created last coming last
C10_Witness ==
    /\ GenerateDone
    /\ Len(out.entries) = 3
    /\ out.entries[1].isUpcoming
    /\ out.entries[3].version = tags[Len(tags)].name

\* the descending tag list is the tags in reverse creation order
ListMatchesCreation ==
    /\ Len(getAllVersionTags) = Len(tags)
    /\ \A k \in 1..Len(tags) : getAllVersionTags[k] = tags[Len(tags) + 1 - k].name
\* no record file of a tag is missing from a later tag
NeverRemoved ==
    \A i, j \in 1..Len(tags) :
        i < j => DOMAIN tags[i].tree \subseteq DOMAIN tags[j].tree
\* the entries of the tags whose changes name the record
EntriesNaming(id) ==
    {k \in 1..HistoricalCount : id \in ChangeIds(HistoricalEntry(k))}
\* the tag, in creation order, that first holds the record
OldestTagWith(id) ==
    CHOOSE i \in 1..Len(tags) :
        /\ id \in DOMAIN tags[i].tree
        /\ \A j \in 1..(i - 1) : id \notin DOMAIN tags[j].tree

\* C7: in a history without removals whose descending tag list is the
\* reverse creation order, with every tag inside the maxVersions window, each
\* record at the newest tag is in the changes of exactly one historical
\* entry, that of the oldest tag holding it, and a record at no tag is in
\* the changes of no historical entry.  (Records: the files that carry a
\* severity; generate reads no others from a tag.)
C7_ExactlyOneEntry ==
    (GenerateDone /\ NeverRemoved /\ ListMatchesCreation
        /\ HistoricalCount = Len(tags)) =>
        /\ tags # <<>> =>
            \A id \in RecordIdsAt(tags[Len(tags)].name) :
                /\ Cardinality(EntriesNaming(id)) = 1
                /\ \A k \in EntriesNaming(id) :
                    HistoricalEntry(k).version = tags[OldestTagWith(id)].name
        /\ \A id \in DOMAIN work \ UsedIdsAtTags : EntriesNaming(id) = {}

\* two tags, each with a record of its own, and a third record at no tag
C7_Witness ==
    /\ GenerateDone /\ ListMatchesCreation
    /\ Len(tags) = 2 /\ HistoricalCount = 2
    /\ Cardinality(RecordIdsAt(tags[1].name)) = 1
    /\ Cardinality(RecordIdsAt(tags[2].name)) = 2
    /\ ChangeIds(HistoricalEntry(1)) # {}
    /\ ChangeIds(HistoricalEntry(2)) # {}

\* the record files of the most recent tag, none without a tag
LatestTagFiles == IF latest = 0 THEN {} ELSE DOMAIN tags[latest].tree
\* the working records that are not present at the most recent tag
NewRecordIds == DOMAIN work \ LatestTagFiles

\* C4: getUpcomingVersion returns an entry exactly when a working record
\* that is not present at the most recent tag carries a severity; the entry
\* is flagged upcoming and has one change per new record, in discovery order.
C4_UpcomingExactlyWhenNew ==
    out.cmd = "generate" =>
        /\ out.upcoming # {} <=> \E id \in NewRecordIds : Classified(work[id])
        /\ \A entry \in out.upcoming :
            /\ entry.isUpcoming
            /\ ChangeIds(entry) = NewRecordIds
            /\ Len(entry.changes) = Cardinality(NewRecordIds)
            /\ \A c, d \in 1..Len(entry.changes) :
                c < d => entry.changes[c].of < entry.changes[d].of

\* C5: no record whose file is present at the most recent tag is in the
\* changes of the upcoming entry, in strict and in lenient mode.
C5_TaggedNeverUpcoming ==
    out.cmd = "generate" =>
        \A entry \in out.upcoming : ChangeIds(entry) \cap LatestTagFiles = {}

\* -------------------------------------------------- claims about releasing
\* C6: after the tag command has succeeded on a working tree whose record
\* files are all committed, and until a record file is added, there is
\* nothing to release: getUpcomingVersion returns no entry, a tag --dry-run
\* that gets past the check for uncommitted changes reports "No changesets
\* found - nothing to release", and version reports hasChanges = false and
\* changeCount = 0.
C6_NothingToRelease ==
    released =>
        /\ getUpcomingVersion(FALSE) = {}
        /\ (out.cmd = "tag" /\ out.opts[1]
              /\ out.msg # "Working directory has uncommitted changes") =>
                out.msg = "No changesets found - nothing to release"
        /\ out.cmd = "version" =>
            ~out.status.hasChanges /\ out.status.changeCount = 0

\* ------------------------------------------------ claims about categories
\* the categories in the order they are asked for, with their keywords
CategoryOrder == <<"added", "fixed", "removed", "deprecated", "security">>
KeywordsOf(category) ==
    CASE category = "added" -> {"add", "new", "feature"}
      [] category = "fixed" -> {"fix", "bug", "resolve"}
      [] category = "removed" -> {"remove", "delete"}
      [] category = "deprecated" -> {"deprecat"}
      [] category = "security" -> {"security", "vulnerabilit"}
\* the lowercased summary contains a keyword of the category
Mentions(summary, category) ==
    \E i \in 1..Len(summary), word \in KeywordsOf(category) :
        contains(toLowerCase(summary[i]), word)
FirstCategory(summary) ==
    LET hits == {k \in 1..Len(CategoryOrder) : Mentions(summary, CategoryOrder[k])}
    IN  IF hits = {} THEN "changed"
        ELSE CategoryOrder[CHOOSE k \in hits : \A h \in hits : k <= h]

\* C11: categorizeChange returns the first category, in the order added,
\* fixed, removed, deprecated, security, of which the lowercased summary
\* contains a keyword, else changed; "Remove deprecated API endpoints" is
\* removed, "Add new feature for users" is added, and upper case counts.
C11_FirstCategory ==
    call.fn = "categorizeChange" =>
        LET summary == call.args[1]
            ret == call.ret[1]
        IN  /\ ret = FirstCategory(summary)
            /\ summary = <<"Remove deprecated API endpoints">> => ret = "removed"
            /\ summary = <<"Add new feature for users">> => ret = "added"
            /\ summary = <<"FIX LOGIN">> => ret = "fixed"
            /\ summary = <<"Update documentation">> => ret = "changed"

\* a summary with keywords of two categories got the earlier one
C11_Witness ==
    /\ call.fn = "categorizeChange"
    /\ call.args[1] = <<"Remove deprecated API endpoints">>
    /\ Mentions(call.args[1], "deprecated")
    /\ call.ret[1] = "removed"

\* --------------------------------------------------- claims about the reads
\* the snapshot a recorded read was made of: file id -> text
ReadSnapshot == call.args[3]
ReadIgnoresErrors == call.args[1]
IsRead == call.fn \in {"readChangesets", "getChangesetsAtTag"}
Unclassified(snapshot) == {i \in DOMAIN snapshot : ~Classified(snapshot[i])}

\* C12: in strict mode a read, of the working tree or of a tag, of a
\* snapshot with a record without severity throws and returns no record,
\* however many other records are valid and wherever the bad one comes.
C12_StrictReadThrows ==
    (IsRead /\ ~ReadIgnoresErrors /\ Unclassified(ReadSnapshot) # {}) =>
        call.ret[1] = Thrown

\* a strict read of the working tree whose last file is the bad one
C12_Witness ==
    /\ call.fn = "readChangesets" /\ ~ReadIgnoresErrors
    /\ Cardinality(DOMAIN ReadSnapshot) = 2
    /\ Unclassified(ReadSnapshot) = {2}
    /\ call.ret[1] = Thrown

\* the ids of the records a read returned
ReturnedIds == {call.ret[1].val[k].id : k \in 1..Len(call.ret[1].val)}

\* C13: in lenient mode a read, of the working tree or of a tag, keeps a
\* record that cannot be classified in the set it returns, with an empty
\* severity list, and such a record gives no version bump.
C13_LenientReadKeeps ==
    (IsRead /\ ReadIgnoresErrors
        /\ (call.fn = "readChangesets" => call.args[2])) =>
        /\ call.ret[1].ok
        /\ ReturnedIds = DOMAIN ReadSnapshot
        /\ \A k \in 1..Len(call.ret[1].val) :
            call.ret[1].val[k].id \in Unclassified(ReadSnapshot) =>
                /\ call.ret[1].val[k].releases = <<>>
                /\ getHighestBumpLevel(<<call.ret[1].val[k]>>) = "none"

\* -------------------------------------------------- claims about the parser
IsParse == call.fn = "parseChangesetContent"
ParsedText == call.args[1]
SeparatorLines(content) == {i \in 1..Len(content) : trim(content[i]) = SepLine}
\* the text has no two separator lines to make a header block of
LacksHeader(content) == Cardinality(SeparatorLines(content)) < 2

\* C14 as stated: on a text without the two separator lines of a header
\* block parseChangesetContent returns a record with the given id, no
\* severity and the whole trimmed text for summary.
C14_RawTextIsSummary ==
    (IsParse /\ LacksHeader(ParsedText)) =>
        /\ call.ret[1].id = call.args[2]
        /\ call.ret[1].releases = <<>>
        /\ call.ret[1].summary = trimLines(ParsedText)

\* C14, amended: ... and the whole trimmed text for summary, or "Changes
\* from <id>" when the trimmed text is empty.
C14_RawTextOrFallback ==
    (IsParse /\ LacksHeader(ParsedText)) =>
        /\ call.ret[1].id = call.args[2]
        /\ call.ret[1].releases = <<>>
        /\ call.ret[1].summary =
             IF trimLines(ParsedText) = <<>> THEN fallbackSummary(call.args[2])
             ELSE trimLines(ParsedText)

\* a text with one separator line only: the line is part of the summary
C14_Witness ==
    /\ IsParse
    /\ Cardinality(SeparatorLines(ParsedText)) = 1
    /\ ParsedText[1] = SepLine /\ Len(ParsedText) = 3
    /\ call.ret[1].releases = <<>>
    /\ call.ret[1].summary = ParsedText

\* the value of a header line `type: <v>`, quotes taken off; "" for a line
\* that is not a type line
UnquotedValue(str) ==
    IF Len(str) >= 2 /\ CharAt(str, 1) = CharAt(str, Len(str))
          /\ CharAt(str, 1) \in {"\"", "'"}
    THEN SubSeq(str, 2, Len(str) - 1) ELSE str
TypeValue(line) ==
    LET colon == skipSpace(line, 5)
    IN  IF startsAt(line, "type", 1) /\ startsAt(line, ":", colon)
        THEN UnquotedValue(trim(SubSeq(line, colon + 1, Len(line))))
        ELSE ""
\* the lines of the header block of a text that has one
HeaderLines(content) ==
    LET seps == SeparatorLines(content)
        first == CHOOSE i \in seps : \A j \in seps : i <= j
        second == CHOOSE i \in seps \ {first} : \A j \in seps \ {first} : i <= j
    IN  SubSeq(content, first + 1, second - 1)
\* the severities of the header lines whose value is exactly a severity
RECURSIVE ExactSeverities(_)
ExactSeverities(lines) ==
    IF lines = <<>> THEN <<>>
    ELSE (IF TypeValue(Head(lines)) \in Severities
          THEN <<TypeValue(Head(lines))>> ELSE <<>>)
         \o ExactSeverities(Tail(lines))

\* C15: parseChangesetContent yields a severity only for a header line
\* `type: <v>` whose value is exactly major, minor or patch, case-sensitive,
\* optionally quoted; any other value or no type line yields no severity.
C15_ExactTypeValue ==
    (IsParse /\ ~LacksHeader(ParsedText)) =>
        call.ret[1].releases = ExactSeverities(HeaderLines(ParsedText))

\* ------------------------------------------ claims about failures surfacing
\* the tag command got past its check for uncommitted changes
TagLookedAtRecords ==
    out.cmd = "tag" /\ out.msg # "Working directory has uncommitted changes"

\* C16 as stated: without a records directory the read of the working
\* snapshot is fatal, and the failure reaches the caller of the operation
\* instead of being reported as an empty or absent result.
C16_MissingDirIsFatal ==
    ~hasDir =>
        /\ readChangesets(FALSE) = Thrown /\ readChangesets(TRUE) = Thrown
        /\ TagLookedAtRecords => out.exit # 0
        /\ out.cmd = "version" => out.exit # 0

\* C16, amended: without a records directory readChangesets rejects, in
\* either mode; getUpcomingVersion catches the failure and returns no entry,
\* so that tag reports "No changesets found - nothing to release" with exit
\* 0 and version reports hasChanges = false.
C16_MissingDirIsNoEntry ==
    ~hasDir =>
        /\ readChangesets(FALSE) = Thrown /\ readChangesets(TRUE) = Thrown
        /\ getUpcomingVersion(FALSE) = {} /\ getUpcomingVersion(TRUE) = {}
        /\ TagLookedAtRecords =>
            /\ out.exit = 0
            /\ out.msg = "No changesets found - nothing to release"
        /\ out.cmd = "version" =>
            /\ out.exit = 0
            /\ ~out.status.hasChanges /\ out.status.upcoming = {}

\* the tag command ran, not as a dry run, in a repository without a records
\* directory
C16_Witness ==
    /\ ~hasDir
    /\ TagLookedAtRecords /\ ~out.opts[1]
    /\ out.msg = "No changesets found - nothing to release"

\* every working record carries a severity (so both reads succeed in either
\* mode) and some working record is not at the latest tag
HasNewClassified ==
    /\ hasDir
    /\ Unclassified(work) = {}
    /\ NewRecordIds # {}

\* C17: when the next version cannot be computed because the base version
\* is no valid semantic version, getUpcomingVersion raises an error to its
\* caller; it does not return an absent result.
C17_InvalidBaseIsFatal ==
    (call.fn = "getUpcomingVersion" /\ ~getCurrentVersion.ok /\ HasNewClassified) =>
        ~call.ret[1].ok

\* a tag that the last generate run read, for an entry or as a predecessor,
\* holds a record without severity
ProcessedTagUnclassified ==
    LET allTags == getAllVersionTags
        window == slice(allTags, maxHistoricalVersions(out.upcoming, out.opts[2]))
    IN  \E k \in 1..Len(allTags) :
            /\ k <= Len(window) + 1
            /\ window # <<>>
            /\ Unclassified(tags[TreeOf(allTags[k])].tree) # {}

\* C18 (generate): in strict mode, when the working snapshot or a tag that
\* generate processes holds an unclassifiable record, generate ends with a
\* non-zero exit status and writes no changelog.
C18_StrictGenerateFails ==
    (out.cmd = "generate" /\ ~out.opts[1]
        /\ (Unclassified(work) # {} \/ ProcessedTagUnclassified)) =>
        out.exit # 0 /\ ~out.wrote

\* the files of a tagged snapshot, and whether one of them is corrupted
FileIdsAt(name) == DOMAIN tags[TreeOf(name)].tree
CorruptedAt(name) == Unclassified(tags[TreeOf(name)].tree) # {}
LenientGenerate == out.cmd = "generate" /\ out.opts[1]

\* C19: with --ignore-errors, generate does not fail on a corrupted record of
\* a tag: it ends with status 0, its historical entries are the tags of the
\* window one for one, and where neither the tag nor the next-older tag holds
\* a corrupted record the entry lists exactly the files of the tag that the
\* next-older tag lacks.
C19_LenientGenerateGoesOn ==
    LenientGenerate =>
        LET allTags == getAllVersionTags
            window == slice(allTags, maxHistoricalVersions(out.upcoming, out.opts[2]))
        IN  /\ out.exit = 0
            /\ HistoricalCount = Len(window)
            /\ \A k \in 1..Len(window) :
                LET clean == /\ ~CorruptedAt(allTags[k])
                             /\ k < Len(allTags) => ~CorruptedAt(allTags[k + 1])
                    older == IF k < Len(allTags) THEN FileIdsAt(allTags[k + 1]) ELSE {}
                IN  /\ HistoricalEntry(k).version = window[k]
                    /\ clean => ChangeIds(HistoricalEntry(k)) = FileIdsAt(allTags[k]) \ older

\* the newest tag holds a corrupted record, and the entry of the clean tag
\* behind it is there with its record
C19_Witness ==
    /\ LenientGenerate
    /\ HistoricalCount = 2
    /\ CorruptedAt(getAllVersionTags[1])
    /\ ~CorruptedAt(getAllVersionTags[2])
    /\ HistoricalEntry(2).changes # <<>>

\* the tags a generate run would process with every git command working
TagsInRepository == sortDescending({n \in TagNames : IsVersionTag(n)})
StrictGenerate == out.cmd = "generate" /\ ~out.opts[1]

FirstAvailableBase ==
    IF latest # 0 THEN tags[latest].name
    ELSE IF pkg # {} THEN CHOOSE v \in pkg : TRUE
    ELSE ZeroVersion

\* C21: getCurrentVersion returns the first available of the latest tag's
\* version, the version declared in package.json, and 0.0.0.
C21_FirstAvailableBase ==
    call.fn = "getCurrentVersion" => call.ret[1] = FirstAvailableBase

\* C22: no command deletes or rewrites a record file: every record file of
\* the working tree before a step is there with the same content after it.
C22_RecordFilesKept ==
    [][\A i \in DOMAIN work : i \in DOMAIN work' /\ work'[i] = work[i]]_vars

\* C23: getChangesetCount returns the number of record files in the records
\* directory, and 0 when the directory is missing or empty.
C23_CountsRecordFiles ==
    call.fn = "getChangesetCount" =>
        call.ret[1] = (IF hasDir THEN Cardinality(DOMAIN work) ELSE 0)

\* the body of a text: what follows the closing separator of the header
\* block, or the whole text when there is no header block
ClosingSeparator(content) ==
    CHOOSE j \in SeparatorLines(content) :
        Cardinality({i \in SeparatorLines(content) : i < j}) = 1
BodyOf(content) ==
    IF LacksHeader(content) THEN content
    ELSE SubSeq(content, ClosingSeparator(content) + 1, Len(content))
NonBlankLines(lines) == {i \in 1..Len(lines) : ~IsBlank(lines[i])}
FirstOf(S) == CHOOSE i \in S : \A j \in S : i <= j
LastOf(S) == CHOOSE i \in S : \A j \in S : j <= i

\* C24: the summary parseChangesetContent returns is never empty: for a body
\* that is blank it is "Changes from <id>", otherwise it is the body from its
\* first to its last line that is not blank, with the white space in front
\* of the first and behind the last taken off and the lines between them as
\* they are.
C24_SummaryNeverEmpty ==
    IsParse =>
        LET body == BodyOf(ParsedText)
            kept == NonBlankLines(body)
            summary == call.ret[1].summary
        IN  /\ summary # <<>> /\ summary[1] # ""
            /\ kept = {} => summary = <<"Changes from " \o ToString(call.args[2])>>
            /\ kept # {} =>
                LET f == FirstOf(kept)
                    l == LastOf(kept)
                IN  /\ Len(summary) = l - f + 1
                    /\ summary[1] = IF f = l THEN trim(body[f])
                                    ELSE trimStart(body[f])
                    /\ summary[Len(summary)] = IF f = l THEN trim(body[f])
                                               ELSE trimEnd(body[l])
                    /\ \A k \in (f + 1)..(l - 1) : summary[k - f + 1] = body[k]

\* a header block followed by blank lines only
C24_Witness ==
    /\ IsParse
    /\ ~LacksHeader(ParsedText)
    /\ BodyOf(ParsedText) # <<>>
    /\ NonBlankLines(BodyOf(ParsedText)) = {}
    /\ call.ret[1].summary = fallbackSummary(call.args[2])

\* a step of the tag command, and what it found before it acted
TagStep == out = NoOut /\ out'.cmd = "tag"
TagHeldBack ==
    \/ ~out'.opts[2] /\ hasUncommittedChanges
    \/ getUpcomingVersion(FALSE) = {}
    \/ out'.opts[1]

\* C25: the tag command creates no tag when the working tree has uncommitted
\* changes and --force is not given (exit 1), when there is no upcoming entry
\* (exit 0) or when --dry-run is given; otherwise it creates exactly one tag,
\* named after the upcoming version, at HEAD.
C25_TagExactlyWhenDue ==
    [][TagStep =>
        /\ TagHeldBack => tags' = tags
        /\ (~out'.opts[2] /\ hasUncommittedChanges) => out'.exit = 1
        /\ (~(~out'.opts[2] /\ hasUncommittedChanges)
                /\ getUpcomingVersion(FALSE) = {}) => out'.exit = 0
        /\ ~TagHeldBack =>
            tags' = Append(tags,
                [name |-> (CHOOSE e \in getUpcomingVersion(FALSE) : TRUE).version,
                 tree |-> head])]_vars

\* a call of createAndPushTag: its version, the tags before it, its result
IsTagging == call.fn = "createAndPushTag"
TagsBefore == call.args[5]
TaggedBefore == \E k \in 1..Len(TagsBefore) : TagsBefore[k].name = call.args[1]

\* C26: when createAndPushTag makes the local tag and the push fails or the
\* remote does not exist, the call returns normally and the tag is there
\* locally; when the local tag cannot be made because it exists already, the
\* call throws, no push is attempted and the tags are as before.
C26_PushNeverFatal ==
    IsTagging =>
        /\ (~TaggedBefore /\ (call.args[4] \/ ~call.args[3])) =>
            /\ call.ret[1].ok
            /\ ~call.ret[1].pushed
            /\ Len(tags) = Len(TagsBefore) + 1
            /\ tags[Len(tags)].name = call.args[1]
            /\ SubSeq(tags, 1, Len(TagsBefore)) = TagsBefore
        /\ TaggedBefore =>
            /\ ~call.ret[1].ok
            /\ ~call.ret[1].pushAttempted
            /\ tags = TagsBefore

\* the tag was made, the remote is there and the push failed
C26_Witness ==
    /\ IsTagging
    /\ ~TaggedBefore
    /\ call.args[2] /\ call.args[3] /\ call.args[4]
    /\ call.ret[1].pushAttempted

\* C27: getVersionStatus reports for changeCount the number of working
\* records that are not present at the latest tag, hasChanges exactly when
\* changeCount > 0, an upcoming version exactly when hasChanges, and for
\* current what getCurrentVersion returns.  (Stated for working trees whose
\* files all carry a severity.)
C27_StatusCountsNewRecords ==
    (out.cmd = "version" /\ hasDir /\ Unclassified(work) = {}) =>
        /\ out.status.changeCount = Cardinality(NewRecordIds)
        /\ out.status.hasChanges <=> out.status.changeCount > 0
        /\ out.status.upcoming # {} <=> out.status.hasChanges
        /\ out.status.current = getCurrentVersion

\* C28: a record file has the same id whether it is read from the working
\* tree or from a tag, so when the latest tag and the working tree hold the
\* same files, no record is left in the diff for the upcoming entry.
C28_SameIdFromTreeAndTag ==
    call.fn = "readBothWays" =>
        /\ Len(call.ret[1]) = Len(call.ret[2])
        /\ \A k \in 1..Len(call.ret[1]) : call.ret[1][k].id = call.ret[2][k].id
        /\ call.ret[3] = <<>>

\* C29: an upcoming entry's version is strictly greater than the base
\* version getCurrentVersion returns, and where every tag was made by the tag
\* command, a later tag has a strictly greater version than an earlier one.
C29_VersionsIncrease ==
    /\ \A e \in getUpcomingVersion(FALSE) : VersionGT(e.version, getCurrentVersion)
    /\ \A i, j \in 1..Len(tags) : i < j => VersionGT(tags[j].name, tags[i].name)

\* the tag command made a second tag, and a further version is upcoming
C29_Witness ==
    /\ Len(tags) = 2
    /\ out.cmd = "tag" /\ out.msg = "Release tag created successfully"
    /\ hasDir /\ getUpcomingVersion(FALSE) # {}

\* C30: the entries one generate run assembles have pairwise distinct
\* versions; the upcoming version is the version of no tag in the list.
C30_DistinctVersions ==
    (out.cmd = "generate" /\ out.exit = 0) =>
        \A i, j \in 1..Len(out.entries) :
            i # j => out.entries[i].version # out.entries[j].version

====
